---- MODULE Spec2Model ----
(***************************************************************************)
(* A model of publicsuffix (src/src/lib.rs): List::build reads the text of *)
(* a Public Suffix List line by line into `rules`, a map from the          *)
(* rightmost label of a rule to the rules that end in it, in the order of    *)
(* the text; List::parse_domain validates a domain, normalises it and      *)
(* matches it against the rules that share its rightmost label.            *)
(*                                                                         *)
(* A string is a sequence of characters.  A character is a one-character   *)
(* TLA+ string, except the code points U+3002 (IDEOGRAPHIC FULL STOP) and  *)
(* U+FFFD (REPLACEMENT CHARACTER), which are written "U+3002" and          *)
(* "U+FFFD".  Option<T> is a sequence of length 0 (None) or 1 (Some).      *)
(***************************************************************************)
EXTENDS Integers, Sequences, FiniteSets, TLC

VARIABLES
    pc,      \* "build" (in the loop of List::build), "failed" (build returned Err),
             \* "ready" (a List was returned), "parsed" (parse_domain has returned)
    typ,     \* List::build: `let mut typ`, the type of the current section
    rules,   \* List.rules: rightmost label -> the rules ending in it, in text order
    text,    \* List::build: the lines of `res` the loop has consumed, in order
    line,    \* List::build: the line of the current iteration
    nread,   \* List::build: the number of lines consumed
    error,   \* the error List::build returned
    input,   \* the argument of the last parse_domain
    result,  \* what the last parse_domain returned (a Domain, an error, a panic)
    calls,   \* per thread: the position and the locals of its call of parse_domain
    fresh    \* the rules of the list as List::build returned it

vars == <<pc, typ, rules, text, line, nread, error, input, result, calls, fresh>>

-----------------------------------------------------------------------------
(* Strings *)

\* The characters of an ASCII literal.
Chars(s) == [i \in 1..Len(s) |-> SubSeq(s, i, i)]

IdeographicFullStop == "U+3002"

ReplacementCharacter == "U+FFFD"

None == <<>>
Some(x) == <<x>>

Lower == {"a", "b", "c"}
Upper == {"A", "B", "C"}
Digit == {"1"}
Alnum == Lower \cup Upper \cup Digit

\* char::to_lowercase on the characters of the model.
LowerOf(c) == CASE c = "A" -> "a" [] c = "B" -> "b" [] c = "C" -> "c" [] OTHER -> c

to_lowercase(s) == [i \in 1..Len(s) |-> LowerOf(s[i])]

starts_with(s, p) == Len(s) >= Len(p) /\ SubSeq(s, 1, Len(p)) = p

ends_with(s, p) == Len(s) >= Len(p) /\ SubSeq(s, Len(s) - Len(p) + 1, Len(s)) = p

contains(s, p) == \E i \in 1..(Len(s) - Len(p) + 1) : SubSeq(s, i, i + Len(p) - 1) = p

\* str::split(sep): the pieces between the separators; never empty ("" gives [""]).
RECURSIVE split(_, _)
split(s, sep) ==
    LET seps == {i \in 1..Len(s) : s[i] = sep}
        h == Cardinality(seps) \div 2
    IN  IF seps = {} THEN <<s>>
        ELSE LET k == CHOOSE i \in seps : Cardinality({j \in seps : j < i}) = h
             IN  split(SubSeq(s, 1, k - 1), sep) \o split(SubSeq(s, k + 1, Len(s)), sep)

\* Iterator::rev().collect()
rev(q) == [i \in 1..Len(q) |-> q[Len(q) + 1 - i]]

\* [&str]::join(sep)
RECURSIVE join(_, _)
join(q, sep) ==
    IF Len(q) = 0 THEN <<>>
    ELSE IF Len(q) = 1 THEN q[1]
    ELSE LET h == Len(q) \div 2
         IN  join(SubSeq(q, 1, h), sep) \o <<sep>> \o join(SubSeq(q, h + 1, Len(q)), sep)

RECURSIVE trim_right_matches(_, _)
trim_right_matches(s, c) ==
    IF Len(s) > 0 /\ s[Len(s)] = c THEN trim_right_matches(SubSeq(s, 1, Len(s) - 1), c) ELSE s

RECURSIVE trim_left_matches(_, _)
trim_left_matches(s, c) ==
    IF Len(s) > 0 /\ s[1] = c THEN trim_left_matches(Tail(s), c) ELSE s

\* str::trim: white space off both ends (the model's white space is the space).
trim(s) == trim_left_matches(trim_right_matches(s, " "), " ")

\* str::split_whitespace().next(): the first token of a line, if any.
split_whitespace_next(s) ==
    LET t == trim_left_matches(s, " ")
    IN  IF Len(t) = 0 THEN None ELSE Some(split(t, " ")[1])

-----------------------------------------------------------------------------
(* List *)

Icann == "Icann"
Private == "Private"
NoType == "None"

\* struct Suffix { rule, typ }
Suffix(rule, t) == [rule |-> rule, typ |-> t]

\* str::rsplit('.').next(): the rightmost label (always present).
rsplit_next(s) == LET q == split(s, ".") IN q[Len(q)]

\* HashMap::entry(tld).or_insert(Vec::new()).push(suffix)
push_entry(m, tld, suffix) ==
    [k \in DOMAIN m \cup {tld} |->
        IF k = tld
        THEN (IF tld \in DOMAIN m THEN m[tld] ELSE <<>>) \o <<suffix>>
        ELSE m[k]]

\* List::append: Err(InvalidRule) when the rightmost label is empty, else the
\* rule is pushed, as written, at the end of the rules of its rightmost label.
append(m, rule, t) ==
    LET tld == rsplit_next(rule)
    IN  IF Len(tld) = 0
        THEN [ok |-> FALSE, rules |-> m]
        ELSE [ok |-> TRUE, rules |-> push_entry(m, tld, Suffix(rule, t))]

\* List::find_type: the rules of one type (as a set of rule texts).
find_type(m, t) ==
    UNION {{m[k][i].rule : i \in {j \in 1..Len(m[k]) : m[k][j].typ = t}} : k \in DOMAIN m}

icann(m) == find_type(m, Icann)

private(m) == find_type(m, Private)

BeginIcann == Chars("BEGIN ICANN DOMAINS")
BeginPrivate == Chars("BEGIN PRIVATE DOMAINS")

\* build_line without the arm that skips the comment lines.
build_line_no_comments(t, m, l) ==
    IF contains(l, BeginIcann) THEN [ok |-> TRUE, typ |-> Icann, rules |-> m]
    ELSE IF contains(l, BeginPrivate) THEN [ok |-> TRUE, typ |-> Private, rules |-> m]
    ELSE IF t = NoType THEN [ok |-> TRUE, typ |-> t, rules |-> m]
    ELSE LET tok == split_whitespace_next(l)
         IN  IF tok = None THEN [ok |-> TRUE, typ |-> t, rules |-> m]
             ELSE LET r == append(m, tok[1], t)
                  IN  [ok |-> r.ok, typ |-> t, rules |-> r.rules]

\* build_line without split_whitespace: the whole line is the rule.
build_line_whole(t, m, l) ==
    IF contains(l, BeginIcann) THEN [ok |-> TRUE, typ |-> Icann, rules |-> m]
    ELSE IF contains(l, BeginPrivate) THEN [ok |-> TRUE, typ |-> Private, rules |-> m]
    ELSE IF starts_with(l, Chars("//")) THEN [ok |-> TRUE, typ |-> t, rules |-> m]
    ELSE IF t = NoType THEN [ok |-> TRUE, typ |-> t, rules |-> m]
    ELSE IF split_whitespace_next(l) = None THEN [ok |-> TRUE, typ |-> t, rules |-> m]
    ELSE LET r == append(m, l, t)
         IN  [ok |-> r.ok, typ |-> t, rules |-> r.rules]

\* One iteration of the loop of List::build over `res.lines()`: the state of
\* the loop is (typ, rules); the result says whether `?` returned early.
build_line(t, m, l) ==
    IF contains(l, BeginIcann) THEN [ok |-> TRUE, typ |-> Icann, rules |-> m]
    ELSE IF contains(l, BeginPrivate) THEN [ok |-> TRUE, typ |-> Private, rules |-> m]
    ELSE IF starts_with(l, Chars("//")) THEN [ok |-> TRUE, typ |-> t, rules |-> m]
    ELSE IF t = NoType THEN [ok |-> TRUE, typ |-> t, rules |-> m]
    ELSE LET tok == split_whitespace_next(l)
         IN  IF tok = None THEN [ok |-> TRUE, typ |-> t, rules |-> m]
             ELSE LET r == append(m, tok[1], t)
                  IN  [ok |-> r.ok, typ |-> t, rules |-> r.rules]

\* The check that ends List::build.
build_is_invalid(m) == DOMAIN m = {} \/ icann(m) = {} \/ private(m) = {}

-----------------------------------------------------------------------------
(* Domain *)

MaxDomainChars == 253
MaxDomainLabels == 127
MaxLabelChars == 63

\* The UTS #46 mapping step of the idna crate on the characters of the model:
\* upper case letters map to lower case, U+3002 maps to the full stop, every
\* other character of the model maps to itself (use_std3_ascii_rules is off;
\* U+FFFD has no mapping and is left for the validation to reject).
map_char(c) == IF c = IdeographicFullStop THEN "." ELSE LowerOf(c)

\* The UTS #46 validity criteria on a mapped label of the model: no code point
\* of the label is disallowed. U+FFFD is the disallowed code point of the
\* model; the letters, the digit, the hyphen and, the STD3 rules being off, the
\* other ASCII characters are valid. A hyphen at either end of a label is no
\* error here ("-a", "a-" and "-" are Ok): has_valid_syntax rejects it with
\* its pattern, which every label of a domain must match before parse calls
\* domain_to_unicode.
uts46_label_ok(l) == \A i \in 1..Len(l) : l[i] # ReplacementCharacter

\* idna::uts46 processing: map every character, validate every label, and
\* join the labels with full stops. No full stop is written while the result
\* is empty, so the empty labels at the head of the domain leave no trace:
\* ".a", "..a" and U+3002 followed by "a" all give "a" (the reason why
\* has_valid_syntax looks for a leading full stop before it calls
\* domain_to_ascii, lib.rs:290-292). The empty labels after the first
\* non-empty one are kept ("a..b" stays "a..b") and are no error. All mapped
\* labels of the model are ASCII, so no label is Punycode-encoded.
uts46_processing(s) ==
    LET mapped == [i \in 1..Len(s) |-> map_char(s[i])]
        labels == split(mapped, ".")
    IN  [value |-> trim_left_matches(mapped, "."),
         ok |-> \A i \in 1..Len(labels) : uts46_label_ok(labels[i])]

domain_to_ascii(s) == uts46_processing(s)

domain_to_unicode(s) == uts46_processing(s)

\* Domain::to_ascii: Some(ascii) for Ok, None for Err(InvalidDomain).
to_ascii(domain) ==
    LET r == domain_to_ascii(domain) IN IF r.ok THEN Some(r.value) ELSE None

\* Regex ^([[:alnum:]]+|[[:alnum:]]+[[:alnum:]-]*[[:alnum:]]+)$
pattern_is_match(l) ==
    /\ Len(l) > 0
    /\ \A i \in 1..Len(l) : l[i] \in Alnum \cup {"-"}
    /\ l[1] \in Alnum
    /\ l[Len(l)] \in Alnum

\* label.parse::<f64>().is_ok(): an optional sign, then a number. With the
\* characters of the model (the letters a, b, c, the digit, the hyphen) the
\* number is a non-empty string of digits: "1" and "-1" parse, "-" and "1-1"
\* do not. The forms nan, inf, infinity and 1e1 need letters the model lacks.
parse_f64_is_ok(l) ==
    LET body == IF Len(l) > 0 /\ l[1] \in {"-", "+"} THEN Tail(l) ELSE l
    IN  Len(body) > 0 /\ \A i \in 1..Len(body) : body[i] \in Digit

has_valid_syntax(domain) ==
    IF starts_with(domain, <<".">>) THEN FALSE
    ELSE LET a == to_ascii(domain)
         IN  IF a = None THEN FALSE
             ELSE LET d == a[1]
                      len == IF ends_with(d, <<".">>) THEN Len(d) - 1 ELSE Len(d)
                      all == split(d, ".")
                      labels == rev(IF ends_with(d, <<".">>) THEN SubSeq(all, 1, Len(all) - 1) ELSE all)
                  IN  IF len > MaxDomainChars THEN FALSE
                      ELSE IF Len(labels) > MaxDomainLabels THEN FALSE
                      ELSE \A i \in 1..Len(labels) :
                              /\ ~(Len(labels[i]) > MaxLabelChars)
                              /\ ~(i = 1 /\ parse_f64_is_ok(labels[i]))
                              /\ pattern_is_match(labels[i])

\* Domain::find_possible_matches: the rules filed under the rightmost label.
find_possible_matches(domain, m) ==
    LET tld == rsplit_next(domain)
    IN  IF Len(tld) = 0 THEN <<>>
        ELSE IF tld \notin DOMAIN m THEN <<>>
        ELSE m[tld]

\* Domain::assemble: the last s_len labels of the lower-cased raw input; the
\* slice d_labels[..s_len] panics when the input has fewer labels.
assemble(inp, s_len) ==
    LET domain == to_lowercase(inp)
        d_labels == rev(split(trim_right_matches(domain, "."), "."))
    IN  IF s_len > Len(d_labels)
        THEN [panic |-> TRUE, value |-> <<>>]
        ELSE [panic |-> FALSE, value |-> join(rev(SubSeq(d_labels, 1, s_len)), ".")]

\* label_matches without the `*` alternative: a wildcard label matches nothing.
label_matches_literal(label, d_label) ==
    label = d_label \/ trim_left_matches(label, "!") = d_label

\* The comparison of one rule label with one domain label in find_match.
label_matches(label, d_label) ==
    label = d_label \/ label = <<"*">> \/ trim_left_matches(label, "!") = d_label

\* replaces_match with `>`: the first of the rules of equal size is kept.
replaces_match_strict(n, num_labels) == n > num_labels

\* `s_labels.len() >= num_labels`: a matching rule replaces the match so far
\* unless it has fewer labels.
replaces_match(n, num_labels) == n >= num_labels

\* The body of `for candidate in candidates`: the inner loop reaches the last
\* label of the rule only if every label matched (it breaks at the first
\* mismatch); st is (registrable, suffix, typ, num_labels) and the panic flag.
candidate_step(st, inp, d_labels, candidate) ==
    LET s_labels == rev(split(candidate.rule, "."))
        n == Len(s_labels)
    IN  IF st.panic THEN st
        ELSE IF n > Len(d_labels) THEN st
        ELSE IF ~(\A i \in 1..n : label_matches(s_labels[i], d_labels[i])) THEN st
        ELSE IF ~replaces_match(n, st.num_labels) THEN st
        ELSE LET s_len == IF starts_with(s_labels[n], <<"!">>) THEN n - 1 ELSE n
                 suf == assemble(inp, s_len)
                 root == assemble(inp, s_len + 1)
             IN  IF suf.panic \/ (Len(d_labels) > s_len /\ root.panic)
                 THEN [st EXCEPT !.panic = TRUE]
                 ELSE [panic |-> FALSE,
                       num_labels |-> n,
                       typ |-> candidate.typ,
                       suffix |-> Some(suf.value),
                       registrable |-> IF Len(d_labels) > s_len THEN Some(root.value) ELSE None]

RECURSIVE candidates_loop(_, _, _, _)
candidates_loop(st, inp, d_labels, candidates) ==
    IF Len(candidates) = 0 THEN st
    ELSE candidates_loop(candidate_step(st, inp, d_labels, Head(candidates)),
                         inp, d_labels, Tail(candidates))

Panicked(inp) == [kind |-> "Panic", full |-> inp, typ |-> NoType, suffix |-> None, registrable |-> None]

Failed(inp, e) == [kind |-> e, full |-> inp, typ |-> NoType, suffix |-> None, registrable |-> None]

\* Domain::find_match
find_match(inp, domain, candidates) ==
    LET d_labels == rev(split(domain, "."))
        st0 == [panic |-> FALSE, num_labels |-> 0, typ |-> NoType, suffix |-> None, registrable |-> None]
        st == candidates_loop(st0, inp, d_labels, candidates)
        no_possible_matches_found == Len(candidates) = 0
    IN  IF st.panic THEN Panicked(inp)
        ELSE IF st.suffix = None /\ Len(d_labels) > 1 /\ no_possible_matches_found
        THEN IF assemble(inp, 1).panic \/ assemble(inp, 2).panic THEN Panicked(inp)
             ELSE [kind |-> "Ok", full |-> inp, typ |-> st.typ,
                   suffix |-> Some(assemble(inp, 1).value),
                   registrable |-> Some(assemble(inp, 2).value)]
        ELSE [kind |-> "Ok", full |-> inp, typ |-> st.typ,
              suffix |-> st.suffix, registrable |-> st.registrable]

\* Domain::parse (List::parse_domain)
parse(domain, m) ==
    IF ~has_valid_syntax(domain) THEN Failed(domain, "InvalidDomain")
    ELSE LET inp == domain
             u == domain_to_unicode(trim_right_matches(trim(inp), "."))
         IN  IF ~u.ok THEN Failed(domain, "Uts46")
             ELSE find_match(inp, u.value, find_possible_matches(u.value, m))

parse_domain(m, domain) == parse(domain, m)

\* The accessors of Domain.
root(d) == d.registrable
suffix(d) == d.suffix
is_private(d) == d.typ = Private
is_icann(d) == d.typ = Icann
has_known_suffix(d) == d.typ # NoType

-----------------------------------------------------------------------------
(* The inputs of the model *)

MaxLines == 5
MaxLabels == 3

IcannMarker == Chars("// ===BEGIN ICANN DOMAINS===")
PrivateMarker == Chars("// ===BEGIN PRIVATE DOMAINS===")

RuleLines == {Chars("a"), Chars("b.a"), Chars("*.a"), Chars("!b.a"), Chars("cc.b.a"), Chars("b")}

\* The lines a list text is made of.
Lines == {IcannMarker, PrivateMarker} \cup RuleLines

DLabels == {Chars("a"), Chars("b"), Chars("cc")}

LabelSeqs == UNION {[1..n -> DLabels] : n \in 1..MaxLabels}

\* The labels of q joined by full stops, the k-th one (if any) by U+3002.
JoinWith(q, k) ==
    LET d == join(q, ".")
        stops == {i \in 1..Len(d) : d[i] = "."}
        nth(i) == Cardinality({j \in stops : j <= i})
    IN  [i \in 1..Len(d) |-> IF d[i] = "." /\ nth(i) = k THEN IdeographicFullStop ELSE d[i]]

\* Domains of one to MaxLabels labels, with at most one U+3002 separator.
Domains == {JoinWith(q, k) : <<q, k>> \in {<<q, k>> \in LabelSeqs \X (0..(MaxLabels - 1)) : k < Len(q)}}

\* Fully qualified, upper-case, numeric and malformed inputs, domains that
\* begin with U+3002 and domains with a code point that idna disallows.
Special == {Chars(""), Chars("."), Chars("a."), Chars("b.a."), Chars("cc.b.a."), Chars("a.."),
            Chars(".a"), Chars("b..a"), Chars("-a"), Chars("a-"), Chars("a b"), Chars(" a"),
            Chars("1"), Chars("a.1"), Chars("1.a"), Chars("A"), Chars("B.a"), Chars("CC.B.A"),
            Chars("b-b.a"), Chars("*.a"), Chars("!b.a"), Chars("a.cc.b.a"), Chars("b.b.b.a"),
            Chars("cc.cc.b.a."), Chars("b.a.."), Chars("b.a..."),
            <<"b", IdeographicFullStop, "a", ".">>, <<"a", IdeographicFullStop, "b", ".">>,
            <<IdeographicFullStop>>, <<IdeographicFullStop, "a">>,
            <<IdeographicFullStop, "b", ".", "a">>, <<IdeographicFullStop, ".", "a">>,
            <<"a", ReplacementCharacter>>, <<"b", ReplacementCharacter, ".", "a">>}

Inputs == Domains \cup Special

MaxThreads == 2

\* The threads that share a built list.
Threads == 1..MaxThreads

-----------------------------------------------------------------------------
(* The state machine *)

NoResult == [kind |-> "NoResult", full |-> <<>>, typ |-> NoType, suffix |-> None, registrable |-> None]

\* A thread that is not in a call of parse_domain.
Idle == [at |-> "idle", arg |-> <<>>, domain |-> <<>>, candidates |-> <<>>, result |-> NoResult]

Init ==
    /\ pc = "build"
    /\ typ = NoType
    /\ rules = <<>>
    /\ text = <<>>
    /\ line = <<>>
    /\ nread = 0
    /\ error = ""
    /\ input = <<>>
    /\ result = NoResult
    /\ calls = [t \in Threads |-> Idle]
    /\ fresh = <<>>

\* List::build, one line of the text: a marker sets the type, a comment or a
\* line before the first marker is skipped, any other line appends its first
\* token; a failed append ends the build with its error.
ReadLine(l) ==
    /\ pc = "build"
    /\ nread < MaxLines
    /\ LET r == build_line(typ, rules, l)
       IN  /\ pc' = IF r.ok THEN "build" ELSE "failed"
           /\ error' = IF r.ok THEN error ELSE "InvalidRule"
           /\ typ' = r.typ
           /\ rules' = r.rules
    /\ text' = Append(text, l)
    /\ line' = l
    /\ nread' = nread + 1
    /\ UNCHANGED <<input, result, calls, fresh>>

\* List::build after the last line: InvalidList unless the list has rules of
\* both types.  A List that is returned keeps nothing of the text and of the
\* locals of build; a failed build stays as it was when it returned Err.
EndOfText ==
    /\ pc = "build"
    /\ IF build_is_invalid(rules)
       THEN /\ pc' = "failed"
            /\ error' = "InvalidList"
            /\ UNCHANGED <<typ, text, line, nread, fresh>>
       ELSE /\ pc' = "ready"
            /\ fresh' = rules
            /\ error' = error
            /\ typ' = NoType
            /\ text' = <<>>
            /\ line' = <<>>
            /\ nread' = 0
    /\ UNCHANGED <<rules, input, result, calls>>

\* List::parse_domain on a built list: the caller receives the Result.
ParseDomain(d) ==
    /\ pc = "ready"
    /\ pc' = "parsed"
    /\ input' = d
    /\ result' = parse_domain(rules, d)
    /\ UNCHANGED <<typ, rules, text, line, nread, error, calls, fresh>>

\* The caller drops the Result of the lookup; the list is ready for the next.
DropResult ==
    /\ pc = "parsed"
    /\ pc' = "ready"
    /\ input' = <<>>
    /\ result' = NoResult
    /\ UNCHANGED <<typ, rules, text, line, nread, error, calls, fresh>>

Next ==
    \/ \E l \in Lines : ReadLine(l)
    \/ EndOfText
    \/ \E d \in Inputs : ParseDomain(d)
    \/ DropResult

Spec == Init /\ [][Next]_vars

-----------------------------------------------------------------------------
(* Lookups from several threads on one built list. List::parse_domain      *)
(* borrows the list (`&self`); a call runs Domain::parse step by step, and  *)
(* the steps of the threads interleave. The list is read in                 *)
(* find_possible_matches; the candidates are the Suffix values its          *)
(* references point at.                                                     *)

\* List::parse_domain is called by thread t.
Call(t, d) ==
    /\ pc = "ready"
    /\ calls[t].at = "idle"
    /\ calls' = [calls EXCEPT ![t] = [Idle EXCEPT !.at = "parse", !.arg = d]]
    /\ UNCHANGED <<pc, typ, rules, text, line, nread, error, input, result, fresh>>

\* Domain::parse, the test of has_valid_syntax.
CheckSyntax(t) ==
    /\ calls[t].at = "parse"
    /\ LET c == calls[t]
       IN  calls' = [calls EXCEPT ![t] =
                        IF has_valid_syntax(c.arg)
                        THEN [c EXCEPT !.at = "normalise"]
                        ELSE [c EXCEPT !.at = "done", !.result = Failed(c.arg, "InvalidDomain")]]
    /\ UNCHANGED <<pc, typ, rules, text, line, nread, error, input, result, fresh>>

\* Domain::parse, the trimming and domain_to_unicode.
Normalise(t) ==
    /\ calls[t].at = "normalise"
    /\ LET c == calls[t]
           u == domain_to_unicode(trim_right_matches(trim(c.arg), "."))
       IN  calls' = [calls EXCEPT ![t] =
                        IF u.ok
                        THEN [c EXCEPT !.at = "candidates", !.domain = u.value]
                        ELSE [c EXCEPT !.at = "done", !.result = Failed(c.arg, "Uts46")]]
    /\ UNCHANGED <<pc, typ, rules, text, line, nread, error, input, result, fresh>>

\* FindPossibleMatches with HashMap::remove in place of HashMap::get: the call
\* takes the rules of the rightmost label of the domain out of the list.
FindPossibleMatches_remove(t) ==
    /\ calls[t].at = "candidates"
    /\ LET c == calls[t]
       IN  /\ calls' = [calls EXCEPT ![t] =
                            [c EXCEPT !.at = "match",
                                      !.candidates = find_possible_matches(c.domain, rules)]]
           /\ rules' = [k \in DOMAIN rules \ {rsplit_next(c.domain)} |-> rules[k]]
    /\ UNCHANGED <<pc, typ, text, line, nread, error, input, result, fresh>>

\* Domain::find_possible_matches: the read of the shared list.
FindPossibleMatches(t) ==
    /\ calls[t].at = "candidates"
    /\ LET c == calls[t]
       IN  calls' = [calls EXCEPT ![t] =
                        [c EXCEPT !.at = "match",
                                  !.candidates = find_possible_matches(c.domain, rules)]]
    /\ UNCHANGED <<pc, typ, rules, text, line, nread, error, input, result, fresh>>

\* Domain::find_match on the candidates the thread holds.
FindMatch(t) ==
    /\ calls[t].at = "match"
    /\ LET c == calls[t]
       IN  calls' = [calls EXCEPT ![t] =
                        [c EXCEPT !.at = "done",
                                  !.result = find_match(c.arg, c.domain, c.candidates)]]
    /\ UNCHANGED <<pc, typ, rules, text, line, nread, error, input, result, fresh>>

\* The call returns; the thread drops the Result.
Return(t) ==
    /\ calls[t].at = "done"
    /\ calls' = [calls EXCEPT ![t] = Idle]
    /\ UNCHANGED <<pc, typ, rules, text, line, nread, error, input, result, fresh>>

ThreadLines == {IcannMarker, PrivateMarker, Chars("a"), Chars("*.a")}

ThreadInputs == {Chars("a"), Chars("b.a"), Chars("b"), Chars(""), <<"a", IdeographicFullStop, "a">>}

ThreadNext ==
    \/ \E l \in ThreadLines : ReadLine(l)
    \/ EndOfText
    \/ \E t \in Threads, d \in ThreadInputs : Call(t, d)
    \/ \E t \in Threads : CheckSyntax(t)
    \/ \E t \in Threads : Normalise(t)
    \/ \E t \in Threads : FindPossibleMatches(t)
    \/ \E t \in Threads : FindMatch(t)
    \/ \E t \in Threads : Return(t)

ThreadSpec == Init /\ [][ThreadNext]_vars

-----------------------------------------------------------------------------
(* The construction of a list from texts with comments, blank lines, rules *)
(* followed by commentary and rules with empty labels.                      *)

CommentLine == Chars("// c")
BlankLine == Chars("")

BuildLines == {IcannMarker, PrivateMarker, CommentLine, BlankLine,
               Chars("b.a x"), Chars("a..b"), Chars(".a"), Chars("a."), Chars("!a")}

BuildInputs == {Chars("a"), Chars("b.a"), Chars("b"), Chars("cc.b.a"), Chars("a..b")}

BuildNext ==
    \/ \E l \in BuildLines : ReadLine(l)
    \/ EndOfText
    \/ \E d \in BuildInputs : ParseDomain(d)
    \/ DropResult

BuildSpec == Init /\ [][BuildNext]_vars

-----------------------------------------------------------------------------
(* The vocabulary of the claims: a domain name and the rules that match it, *)
(* as the Public Suffix List format defines them.                           *)

\* The labels of a domain name, rightmost first: letters in lower case, the
\* full stop and U+3002 as separators, the root's trailing full stop dropped.
LabelsOf(d) ==
    LET name == [i \in 1..Len(d) |-> map_char(d[i])]
        rel == IF ends_with(name, <<".">>) THEN SubSeq(name, 1, Len(name) - 1) ELSE name
    IN  rev(split(rel, "."))

\* The last n labels of a name, joined by full stops.
TailOf(dl, n) == join(rev(SubSeq(dl, 1, n)), ".")

IsException(r) == starts_with(r, <<"!">>)

IsWildcard(r) == \E i \in 1..Len(split(r, ".")) : split(r, ".")[i] = <<"*">>

\* The labels of a rule, rightmost first, without the exception mark.
RuleLabels(r) == rev(split(IF IsException(r) THEN Tail(r) ELSE r, "."))

RuleSize(r) == Len(RuleLabels(r))

\* A rule matches a name when its labels equal the name's rightmost labels,
\* a `*` label matching any one label; a label is not empty.
RuleMatches(r, dl) ==
    /\ RuleSize(r) <= Len(dl)
    /\ \A i \in 1..RuleSize(r) :
          (RuleLabels(r)[i] = <<"*">> /\ dl[i] # <<>>) \/ RuleLabels(r)[i] = dl[i]

\* The rules of a list: (rightmost label, position) pairs and their records.
RuleIds(m) == {<<k, i>> \in (DOMAIN m) \X (1..MaxLines) : i <= Len(m[k])}

Matching(m, dl) == {id \in RuleIds(m) : RuleMatches(m[id[1]][id[2]].rule, dl)}

RuleAt(m, id) == m[id[1]][id[2]]

Parsed == pc = "parsed"

ParsedValid == pc = "parsed" /\ has_valid_syntax(input)

\* The inputs written with ASCII characters only.
Ascii(d) == \A i \in 1..Len(d) : d[i] \notin {IdeographicFullStop, ReplacementCharacter}

\* The rules that match a name with the most labels.
Longest(m, dl) ==
    {id \in Matching(m, dl) : \A o \in Matching(m, dl) : RuleSize(RuleAt(m, o).rule) <= RuleSize(RuleAt(m, id).rule)}

\* What C1 says of a lookup: the suffix is the tail with as many labels as the
\* longest matching rule, and the type is that rule's.
LongestMatchReturned ==
    LET dl == LabelsOf(input)
        M == Matching(rules, dl)
    IN  (M # {} /\ \A id \in M : ~IsException(RuleAt(rules, id).rule)) =>
            /\ result.kind = "Ok"
            /\ \E id \in Longest(rules, dl) :
                  /\ suffix(result) = Some(TailOf(dl, RuleSize(RuleAt(rules, id).rule)))
                  /\ has_known_suffix(result)
                  /\ is_icann(result) = (RuleAt(rules, id).typ = Icann)
                  /\ is_private(result) = (RuleAt(rules, id).typ = Private)

\* C1: for every valid domain that no exception rule matches and some rule
\* matches, parse_domain returns as suffix the tail of the domain with as many
\* labels as the longest matching rule, and reports that rule's type.
C1_LongestMatch == ParsedValid => LongestMatchReturned

\* C1 on the inputs whose separators are all ASCII full stops.
C1_LongestMatchAscii == (ParsedValid /\ Ascii(input)) => LongestMatchReturned

\* The exception rules of a list that match a name.
MatchingExceptions(m, dl) == {id \in Matching(m, dl) : IsException(RuleAt(m, id).rule)}

\* C2: in a list with a rule R and an exception rule !L.R, the lookup of L.R
\* returns the suffix R.
C2_ExceptionSuffix ==
    Parsed =>
        \A e \in RuleIds(rules), r \in RuleIds(rules) :
            (/\ IsException(RuleAt(rules, e).rule)
             /\ RuleSize(RuleAt(rules, e).rule) >= 2
             /\ RuleAt(rules, r).rule = TailOf(RuleLabels(RuleAt(rules, e).rule), RuleSize(RuleAt(rules, e).rule) - 1)
             /\ input = Tail(RuleAt(rules, e).rule))
            => (result.kind = "Ok" /\ suffix(result) = Some(RuleAt(rules, r).rule))

\* C3: whenever an exception rule !L.R matches the rightmost labels of the
\* domain, the suffix is R, whatever other rules match and wherever they stand
\* in the text (stated for the domains written with ASCII full stops).
C3_ExceptionTerminal ==
    (ParsedValid /\ Ascii(input)) =>
        \A e \in MatchingExceptions(rules, LabelsOf(input)) :
            /\ result.kind = "Ok"
            /\ suffix(result) = Some(TailOf(LabelsOf(input), RuleSize(RuleAt(rules, e).rule) - 1))

\* The wildcard rules `*.R` of a list that match a name: a leading `*` label
\* and no other mark.
MatchingWildcards(m, dl) ==
    {id \in Matching(m, dl) :
        /\ ~IsException(RuleAt(m, id).rule)
        /\ RuleSize(RuleAt(m, id).rule) >= 2
        /\ RuleLabels(RuleAt(m, id).rule)[RuleSize(RuleAt(m, id).rule)] = <<"*">>}

\* The domain X.R of a rule *.R: as many labels as the rule.
IsXR(m, dl) == \E w \in MatchingWildcards(m, dl) : RuleSize(RuleAt(m, w).rule) = Len(dl)

\* The domain Y.X.R of a rule *.R: one label more than the rule.
IsYXR(m, dl) == \E w \in MatchingWildcards(m, dl) : RuleSize(RuleAt(m, w).rule) + 1 = Len(dl)

\* C4 as written: with *.R in the list, the suffix of X.R is X.R and the root
\* of Y.X.R is Y.X.R, for any single label X.
C4_WildcardOriginal ==
    (ParsedValid /\ Ascii(input)) =>
        LET dl == LabelsOf(input)
        IN  /\ IsXR(rules, dl) => suffix(result) = Some(TailOf(dl, Len(dl)))
            /\ IsYXR(rules, dl) => root(result) = Some(TailOf(dl, Len(dl)))

\* C4 (amended): with *.R in the list and no exception rule !X.R, the suffix
\* of X.R is X.R, and the root of Y.X.R is Y.X.R unless a rule other than an
\* exception matches all the labels of Y.X.R.
C4_Wildcard ==
    (ParsedValid /\ Ascii(input)) =>
        LET dl == LabelsOf(input)
            whole == {id \in Matching(rules, dl) :
                        RuleSize(RuleAt(rules, id).rule) = Len(dl) /\ ~IsException(RuleAt(rules, id).rule)}
        IN  /\ (IsXR(rules, dl) /\ MatchingExceptions(rules, dl) = {}) =>
                  (result.kind = "Ok" /\ suffix(result) = Some(TailOf(dl, Len(dl))))
            /\ (IsYXR(rules, dl) /\ (\A e \in MatchingExceptions(rules, dl) : RuleSize(RuleAt(rules, e).rule) = Len(dl))
                                 /\ whole = {}) =>
                  (result.kind = "Ok" /\ root(result) = Some(TailOf(dl, Len(dl))))

\* A lookup of X.R that only the wildcard decides: no rule has the label X.
C4_Witness ==
    /\ ParsedValid /\ Ascii(input)
    /\ IsXR(rules, LabelsOf(input))
    /\ \A id \in Matching(rules, LabelsOf(input)) : id \in MatchingWildcards(rules, LabelsOf(input))
    /\ suffix(result) = Some(TailOf(LabelsOf(input), Len(LabelsOf(input))))
    /\ root(result) = None


\* The text of a rule without its exception mark.
RuleBody(r) == IF IsException(r) THEN Tail(r) ELSE r

\* C5 as written: the lookup of the labels of any rule r of the list returns a
\* suffix as long as r (without `!`) and the type of r's section.
C5_RoundTripOriginal ==
    Parsed =>
        \A id \in RuleIds(rules) :
            input = RuleBody(RuleAt(rules, id).rule) =>
                /\ result.kind = "Ok"
                /\ suffix(result) # None
                /\ Len(suffix(result)[1]) = Len(RuleBody(RuleAt(rules, id).rule))
                /\ result.typ = RuleAt(rules, id).typ

\* The rules with as many labels as rule id that match its labels and stand
\* after it in the text.
LaterRivals(m, id) ==
    {o \in Matching(m, LabelsOf(RuleAt(m, id).rule)) :
        /\ RuleSize(RuleAt(m, o).rule) = RuleSize(RuleAt(m, id).rule)
        /\ o[1] = id[1] /\ o[2] > id[2]}

\* C5 (amended): for a rule r that is neither an exception nor a wildcard rule
\* and is the last of the rules with its number of labels that match its
\* labels, the lookup of r's labels returns r as the suffix (so a suffix as
\* long as r), no root, and the type of r's section.
C5_RoundTrip ==
    Parsed =>
        \A id \in RuleIds(rules) :
            (/\ input = RuleAt(rules, id).rule
             /\ ~IsException(RuleAt(rules, id).rule)
             /\ ~IsWildcard(RuleAt(rules, id).rule)
             /\ LaterRivals(rules, id) = {})
            => /\ result.kind = "Ok"
               /\ suffix(result) = Some(RuleAt(rules, id).rule)
               /\ Len(suffix(result)[1]) = Len(RuleAt(rules, id).rule)
               /\ root(result) = None
               /\ result.typ = RuleAt(rules, id).typ

\* The lookup of a three-label rule that stands before another rule of the
\* list: 6 characters (cc.b.a) and the rule's own type.
C5_Witness ==
    /\ Parsed
    /\ \E id \in RuleIds(rules) :
          /\ input = RuleAt(rules, id).rule
          /\ RuleSize(RuleAt(rules, id).rule) = 3
          /\ id[2] < Len(rules[id[1]])
          /\ result.typ = RuleAt(rules, id).typ
          /\ suffix(result) = Some(input)

\* C6: a single-label domain that no rule matches is its own suffix, with type
\* None and no root.
C6_DefaultSuffix ==
    (ParsedValid /\ Len(LabelsOf(input)) = 1 /\ Matching(rules, LabelsOf(input)) = {}) =>
        /\ result.kind = "Ok"
        /\ suffix(result) = Some(LabelsOf(input)[1])
        /\ result.typ = NoType
        /\ root(result) = None

\* The rules that end in the rightmost label of a name.
SameTld(m, dl) == {id \in RuleIds(m) : RuleLabels(RuleAt(m, id).rule)[1] = dl[1]}

\* C7: when rules end in the rightmost label of the domain but none matches
\* it, the suffix is the rightmost label with type None, and the root is the
\* last two labels when there are two.
C7_RightmostLabel ==
    (ParsedValid /\ SameTld(rules, LabelsOf(input)) # {} /\ Matching(rules, LabelsOf(input)) = {}) =>
        /\ result.kind = "Ok"
        /\ suffix(result) = Some(TailOf(LabelsOf(input), 1))
        /\ result.typ = NoType
        /\ Len(LabelsOf(input)) >= 2 => root(result) = Some(TailOf(LabelsOf(input), 2))

\* What C8 says of a lookup of two or more labels under an unknown rightmost
\* label.
UnknownTldReturned ==
    (Len(LabelsOf(input)) >= 2 /\ SameTld(rules, LabelsOf(input)) = {}) =>
        /\ result.kind = "Ok"
        /\ suffix(result) = Some(TailOf(LabelsOf(input), 1))
        /\ root(result) = Some(TailOf(LabelsOf(input), 2))
        /\ ~has_known_suffix(result) /\ ~is_icann(result) /\ ~is_private(result)

\* C8: a valid domain of two or more labels whose rightmost label ends no rule
\* has the rightmost label as suffix, the last two labels as root and no type.
C8_UnknownTld == ParsedValid => UnknownTldReturned

\* C8 on the inputs whose separators are all ASCII full stops.
C8_UnknownTldAscii == (ParsedValid /\ Ascii(input)) => UnknownTldReturned

\* What C9 says of a returned Domain, label by label.
RootInvariantHolds ==
    LET dl == LabelsOf(input)
        sl == LabelsOf(suffix(result)[1])
        rl == LabelsOf(root(result)[1])
    IN  /\ root(result) # None =>
              /\ suffix(result) # None
              /\ Len(dl) > Len(sl)
              /\ sl = SubSeq(dl, 1, Len(sl))
              /\ rl = SubSeq(dl, 1, Len(sl) + 1)
        /\ (suffix(result) # None /\ Len(sl) >= Len(dl)) =>
              /\ root(result) = None
              /\ sl = dl

\* C9: root is set only with a suffix and when the input has more labels than
\* the suffix; it is then the suffix preceded by exactly one more label of the
\* input; an all-suffix domain has no root and is its own suffix.
C9_RootInvariant == (Parsed /\ result.kind = "Ok") => RootInvariantHolds

\* C9 on the inputs whose separators are all ASCII full stops.
C9_RootInvariantAscii == (Parsed /\ result.kind = "Ok" /\ Ascii(input)) => RootInvariantHolds

\* C10: parse_domain returns a Domain, never an error and never a panic
\* (stated for the inputs has_valid_syntax accepts).
C10_Total == ParsedValid => result.kind = "Ok"

\* C10 for every input: an input has_valid_syntax rejects gets InvalidDomain.
C10_TotalAnyInput == Parsed => result.kind = "Ok"

-----------------------------------------------------------------------------
(* Lookups of domains at and beyond the limits of size *)

\* A label of n letters, and n one-letter labels.
label_of(n) == [i \in 1..n |-> "a"]

labels_of(n) == [i \in 1..(2 * n - 1) |-> IF i % 2 = 1 THEN "a" ELSE "."]

\* Three labels of 63 letters and one of n: 192 + n characters.
chars_of(n) == label_of(n) \o <<".">> \o label_of(63) \o <<".">> \o label_of(63) \o <<".">> \o label_of(63)

SizeInputs == {label_of(63), label_of(64), label_of(63) \o Chars(".a"), label_of(64) \o Chars(".a"),
               labels_of(126), labels_of(127), labels_of(127) \o <<".">>, labels_of(128),
               chars_of(60), chars_of(61), chars_of(61) \o <<".">>, chars_of(62),
               <<IdeographicFullStop>> \o chars_of(60), <<IdeographicFullStop>> \o chars_of(61),
               Chars("a"), Chars("b.a")}

SizeLines == {IcannMarker, PrivateMarker, Chars("a")}

SizeNext ==
    \/ \E l \in SizeLines : ReadLine(l)
    \/ EndOfText
    \/ \E d \in SizeInputs : ParseDomain(d)
    \/ DropResult

SizeSpec == Init /\ [][SizeNext]_vars

-----------------------------------------------------------------------------
(* The claims about the construction of a list *)

\* A comment line begins with `//`; a blank line has white space only.
IsCommentLine(l) == starts_with(l, Chars("//"))

IsBlankLine(l) == \A i \in 1..Len(l) : l[i] = " "

OnlyCommentsAndBlanks(t) == \A i \in 1..Len(t) : IsCommentLine(t[i]) \/ IsBlankLine(t[i])

\* A List exists: List::build returned Ok.
Built == pc \in {"ready", "parsed"}

\* The step in which List::build returns, and the text it has consumed then.
BuildReturns == pc = "build" /\ pc' # "build"

ConsumedText == IF pc' = "failed" THEN text' ELSE text

\* C11: the build of a text of comment lines and blank lines only returns
\* Err(InvalidList), and a list that was built has at least one rule.
C11_InvalidList ==
    /\ [](Built => (DOMAIN rules # {} /\ \A k \in DOMAIN rules : Len(rules[k]) > 0))
    /\ [][(BuildReturns /\ OnlyCommentsAndBlanks(ConsumedText)) =>
              (pc' = "failed" /\ error' = "InvalidList")]_vars

\* A build that failed with InvalidList on a text with a marker, a comment and
\* a blank line, and no other line.
C11_Witness ==
    /\ pc = "failed" /\ error = "InvalidList"
    /\ OnlyCommentsAndBlanks(text)
    /\ \E i, j, k \in 1..Len(text) :
          text[i] = IcannMarker /\ text[j] = CommentLine /\ text[k] = BlankLine

\* C12: InvalidList is returned only for a text that yielded no rule at all:
\* a build that stored a rule under a section marker does not fail with it.
C12_UsableRuleBuilds == (pc = "failed" /\ error = "InvalidList") => DOMAIN rules = {}

\* A rule with a zero-length label: two consecutive full stops, a leading or
\* a trailing full stop (after the exception mark, if any).
HasEmptyLabel(r) == \E i \in 1..Len(split(RuleBody(r), ".")) : split(RuleBody(r), ".")[i] = <<>>

\* C13: a rule with an empty label makes the build fail, so no list that was
\* built stores such a rule.
C13_EmptyLabelRejected ==
    Built => \A id \in RuleIds(rules) : ~HasEmptyLabel(RuleAt(rules, id).rule)

\* C14: an exception rule with no full stop makes the build fail, so no list
\* that was built stores such a rule.
C14_ExceptionNeedsDot ==
    Built => \A id \in RuleIds(rules) :
                ~(IsException(RuleAt(rules, id).rule) /\ ~contains(RuleAt(rules, id).rule, <<".">>))

-----------------------------------------------------------------------------
(* The claims about lookups on a built list *)

\* C15: the rules of a built list stay those List::build returned, and every
\* call of parse_domain, whatever calls came before it and however its steps
\* interleave with the calls of other threads, returns the kind of result,
\* the suffix, the root and the type that parse_domain returns for its domain
\* on the freshly built list.
C15_Immutable ==
    /\ Built => rules = fresh
    /\ \A t \in Threads :
          calls[t].at = "done" =>
              LET first == parse_domain(fresh, calls[t].arg)
              IN  /\ calls[t].result.kind = first.kind
                  /\ suffix(calls[t].result) = suffix(first)
                  /\ root(calls[t].result) = root(first)
                  /\ calls[t].result.typ = first.typ

\* A call found a rule and has its result while the call of another thread,
\* for another domain, holds the candidates it read and has yet to match them.
C15_Witness ==
    \E t \in Threads, u \in Threads :
        /\ t # u
        /\ calls[t].at = "done" /\ calls[t].result.kind = "Ok" /\ has_known_suffix(calls[t].result)
        /\ root(calls[t].result) # None
        /\ calls[u].at = "match" /\ calls[u].arg # calls[t].arg /\ Len(calls[u].candidates) >= 2

\* A domain written with exactly one trailing full stop, and the domain
\* before that full stop.
OneTrailingDot(d) == ends_with(d, <<".">>) /\ ~ends_with(d, <<".", ".">>) /\ Len(d) > 1

Stem(d) == SubSeq(d, 1, Len(d) - 1)

\* A label of the domain (the trailing full stop of the root set aside) is empty.
EmptyLabelIn(d) == \E i \in 1..Len(LabelsOf(d)) : LabelsOf(d)[i] = <<>>

\* C16: a valid domain followed by one full stop is accepted and gets the
\* Domain of the domain without it; a domain followed by two or more full
\* stops, or with an empty label, gets an error.
C16_TrailingDot ==
    Parsed =>
        /\ (OneTrailingDot(input) /\ has_valid_syntax(Stem(input))) =>
              LET plain == parse_domain(rules, Stem(input))
              IN  /\ result.kind = "Ok"
                  /\ suffix(result) = suffix(plain)
                  /\ root(result) = root(plain)
                  /\ result.typ = plain.typ
        /\ (ends_with(input, <<".", ".">>) \/ EmptyLabelIn(input)) =>
              result.kind \in {"InvalidDomain", "Uts46"}

\* C16 on the domains written with ASCII characters only.
C16_TrailingDotAscii == Ascii(input) => C16_TrailingDot

\* The size of a domain: its labels and its characters, one trailing full
\* stop not counted.
TooBig(d) ==
    LET dl == LabelsOf(d)
    IN  \/ \E i \in 1..Len(dl) : Len(dl[i]) > 63
        \/ Len(dl) > 127
        \/ (IF ends_with(d, <<".">>) THEN Len(d) - 1 ELSE Len(d)) > 253

\* A domain of non-empty labels of letters, digits and inner hyphens, the
\* rightmost label not a number.
WellFormedLabel(l) ==
    /\ Len(l) > 0
    /\ \A j \in 1..Len(l) : l[j] \in Lower \cup Digit \cup {"-"}
    /\ l[1] # "-" /\ l[Len(l)] # "-"

WellFormed(d) ==
    LET dl == LabelsOf(d)
    IN  /\ \A i \in 1..Len(dl) : WellFormedLabel(dl[i])
        /\ \E j \in 1..Len(dl[1]) : dl[1][j] \notin Digit

\* C17: a domain with a label of more than 63 characters, more than 127
\* labels or more than 253 characters gets an error; a well-formed domain
\* within the three limits is not rejected.
C17_SizeLimits ==
    Parsed =>
        /\ TooBig(input) => result.kind \in {"InvalidDomain", "Uts46"}
        /\ (~TooBig(input) /\ WellFormed(input)) => result.kind \notin {"InvalidDomain", "Uts46"}

\* The matching rules of n labels that are no exceptions: those without a `*`
\* label (exact) and those with one (wildcard).
ExactMatches(m, dl, n) ==
    {id \in Matching(m, dl) : /\ RuleSize(RuleAt(m, id).rule) = n
                              /\ ~IsWildcard(RuleAt(m, id).rule)
                              /\ ~IsException(RuleAt(m, id).rule)}

WildMatches(m, dl, n) ==
    {id \in Matching(m, dl) : /\ RuleSize(RuleAt(m, id).rule) = n
                              /\ IsWildcard(RuleAt(m, id).rule)
                              /\ ~IsException(RuleAt(m, id).rule)}

\* C18: when an exact rule and a wildcard rule of the same number of labels
\* are the longest rules that match the domain (and no exception matches), the
\* type reported is that of the exact rule, whichever line comes first
\* (stated for the domains written with ASCII full stops).
C18_ExactOverWildcard ==
    (ParsedValid /\ Ascii(input)) =>
        LET dl == LabelsOf(input)
        IN  \A n \in 1..Len(dl) :
                (/\ ExactMatches(rules, dl, n) # {}
                 /\ WildMatches(rules, dl, n) # {}
                 /\ MatchingExceptions(rules, dl) = {}
                 /\ \A o \in Matching(rules, dl) : RuleSize(RuleAt(rules, o).rule) <= n)
                => /\ result.kind = "Ok"
                   /\ \E e \in ExactMatches(rules, dl, n) : result.typ = RuleAt(rules, e).typ

-----------------------------------------------------------------------------
(* The sections of a list text *)

IsIcannMarker(l) == contains(l, Chars("BEGIN ICANN DOMAINS"))

IsPrivateMarker(l) == contains(l, Chars("BEGIN PRIVATE DOMAINS"))

IsMarker(l) == IsIcannMarker(l) \/ IsPrivateMarker(l)

\* The type of the most recent marker line before line i of a text.
SectionOf(t, i) ==
    LET before == {j \in 1..(i - 1) : IsMarker(t[j])}
    IN  IF before = {} THEN NoType
        ELSE LET j == CHOOSE x \in before : \A y \in before : y <= x
             IN  IF IsIcannMarker(t[j]) THEN Icann ELSE Private

\* The first white-space-delimited token of a line that is not blank.
FirstToken(l) ==
    LET first == CHOOSE i \in 1..Len(l) : l[i] # " " /\ \A j \in 1..(i - 1) : l[j] = " "
        rest == {i \in first..Len(l) : l[i] = " "}
        last == IF rest = {} THEN Len(l) ELSE (CHOOSE i \in rest : \A j \in rest : i <= j) - 1
    IN  SubSeq(l, first, last)

\* The lines of a text that state a rule: under a marker, and neither a
\* marker, nor a comment, nor blank.
IsRuleLine(t, i) ==
    ~IsMarker(t[i]) /\ ~IsCommentLine(t[i]) /\ ~IsBlankLine(t[i]) /\ SectionOf(t, i) # NoType

\* The rules a text states, in the order of the text, with their sections.
Stated(t) ==
    LET NoRule == [rule |-> <<>>, typ |-> NoType]
        each == [i \in 1..Len(t) |->
                    IF IsRuleLine(t, i) THEN [rule |-> FirstToken(t[i]), typ |-> SectionOf(t, i)]
                    ELSE NoRule]
    IN  SelectSeq(each, LAMBDA e : e # NoRule)

RulesUnder(q, k) == SelectSeq(q, LAMBDA e : rsplit_next(e.rule) = k)

\* C19: after any prefix of the lines, the stored rules are the first tokens
\* of the rule lines read so far, each with the type of the most recent
\* marker line before it; marker, comment and blank lines store nothing.
C19_SectionTyping ==
    (pc = "build" \/ (pc = "failed" /\ error = "InvalidList")) =>
        LET stated == Stated(text)
        IN  /\ DOMAIN rules = {rsplit_next(stated[i].rule) : i \in 1..Len(stated)}
            /\ \A k \in DOMAIN rules : rules[k] = RulesUnder(stated, k)
            /\ \A id \in RuleIds(rules) : RuleAt(rules, id).typ \in {Icann, Private}

\* A text of five lines with a comment or a blank line and a rule followed by
\* commentary in each of the two sections.
C19_Witness ==
    /\ pc = "build"
    /\ \E i \in 1..Len(text) : text[i] \in {CommentLine, BlankLine}
    /\ \E a, b \in RuleIds(rules) :
          /\ RuleAt(rules, a) = [rule |-> Chars("b.a"), typ |-> Icann]
          /\ RuleAt(rules, b) = [rule |-> Chars("b.a"), typ |-> Private]

-----------------------------------------------------------------------------
(* Rules that stand twice in a list *)

\* The pairs (earlier, later) of occurrences of one rule text.
Duplicates(m) ==
    {p \in RuleIds(m) \X RuleIds(m) :
        /\ p[1][1] = p[2][1] /\ p[1][2] < p[2][2]
        /\ RuleAt(m, p[1]).rule = RuleAt(m, p[2]).rule}

\* The list without one occurrence of a rule.
Without(m, id) ==
    [k \in DOMAIN m |->
        IF k = id[1] THEN SubSeq(m[k], 1, id[2] - 1) \o SubSeq(m[k], id[2] + 1, Len(m[k])) ELSE m[k]]

\* The later occurrence is the last rule of its text, and every matching rule
\* of another text has fewer labels.
Decides(m, id, dl) ==
    \A o \in Matching(m, dl) :
        IF RuleAt(m, o).rule = RuleAt(m, id).rule THEN o[2] <= id[2]
        ELSE RuleSize(RuleAt(m, o).rule) < RuleSize(RuleAt(m, id).rule)

\* C20: when a rule stands twice in a list that was built, a lookup that
\* matches it ends as with one occurrence, with the same suffix and root, and
\* the Domain it returns has the type of the later occurrence.
C20_LastWins ==
    ParsedValid =>
        LET dl == LabelsOf(input)
        IN  \A p \in Duplicates(rules) :
                RuleMatches(RuleAt(rules, p[1]).rule, dl) =>
                    LET single == parse_domain(Without(rules, p[1]), input)
                    IN  /\ result.kind = single.kind
                        /\ suffix(result) = suffix(single)
                        /\ root(result) = root(single)
                        /\ (result.kind = "Ok" /\ Decides(rules, p[2], dl)) =>
                              result.typ = RuleAt(rules, p[2]).typ
                        /\ Ascii(input) => result.kind = "Ok"

\* A lookup decided by the later of two occurrences of a rule, which stand in
\* different sections.
C20_Witness ==
    /\ ParsedValid /\ result.kind = "Ok"
    /\ \E p \in Duplicates(rules) :
          /\ RuleMatches(RuleAt(rules, p[1]).rule, LabelsOf(input))
          /\ Decides(rules, p[2], LabelsOf(input))
          /\ RuleAt(rules, p[1]).typ # RuleAt(rules, p[2]).typ
          /\ result.typ = RuleAt(rules, p[2]).typ
          /\ root(result) # None

-----------------------------------------------------------------------------
(* The slice of Domain::assemble *)

\* The number of labels assemble finds in the raw input: lower case, trailing
\* full stops trimmed, split on the ASCII full stop.
RawLabels(d) == Len(split(trim_right_matches(to_lowercase(d), "."), "."))

\* C21: for every input that passes has_valid_syntax, no assemble(input, n) of
\* find_match asks for more labels than the raw input has: the lookup does
\* not panic, and the suffix and the root it returns have at most as many
\* labels as the raw input.
C21_NoOutOfRangeSlice ==
    ParsedValid =>
        /\ result.kind # "Panic"
        /\ suffix(result) # None => Len(split(suffix(result)[1], ".")) <= RawLabels(input)
        /\ root(result) # None => Len(split(root(result)[1], ".")) <= RawLabels(input)

====
